---- MODULE Spec2Model ----
(***************************************************************************)
(* The FSA validator (src/main.py) and the FSA-to-regex tool               *)
(* (src/fsa_to_regex.py).  Both programs share read_file, find_error,      *)
(* is_disjoint, is_complete, is_deterministic and                          *)
(* are_all_states_reachable verbatim; they differ in what main does once   *)
(* find_error has returned None.                                           *)
(*                                                                         *)
(* Python strings are sequences of character codes, so that the substring  *)
(* test, the lexicographic sort and the bytes of the produced expression   *)
(* are the ones the code computes.                                         *)
(***************************************************************************)
EXTENDS Integers, Sequences, FiniteSets, TLC

VARIABLES fsa, input, pc, graph, q, visited_nodes, out, trace

vars == <<fsa, input, pc, graph, q, visited_nodes, out, trace>>

(***************************************************************************)
(* Bounds of the model.                                                    *)
(***************************************************************************)
MaxStates == 2
MaxTrans == 2
MaxFinals == 2
MaxCalls == 2
MaxWord == 2

(***************************************************************************)
(* Strings.                                                                *)
(***************************************************************************)
\* "s" and "s1": two state names, one a substring of the other
StateNames == {<<115>>, <<115, 49>>}
\* "a" and "b"
SymbolNames == {<<97>>, <<98>>}
\* alpha=[a] and alpha=[a,b]
Alphabets == {<< <<97>> >>, << <<97>>, <<98>> >>}
\* Python's None (no state name is the empty string)
None == <<>>

BAR == <<124>>
LPAR == <<40>>
RPAR == <<41>>
STAR == <<42>>
EPS == <<101, 112, 115>>
EMPTYSET == <<123, 125>>

\* x in list
InList(x, list) == \E i \in DOMAIN list : list[i] = x

Range(list) == {list[i] : i \in DOMAIN list}

\* str.__contains__: sub occurs in str as a contiguous run
IsSubstring(sub, str) ==
  \E p \in 0..(Len(str) - Len(sub)) :
    \A i \in 1..Len(sub) : str[p + i] = sub[i]

\* str.__lt__: lexicographic order on code points
RECURSIVE StrLess(_, _)
StrLess(x, y) ==
  IF y = <<>> THEN FALSE
  ELSE IF x = <<>> THEN TRUE
  ELSE IF Head(x) # Head(y) THEN Head(x) < Head(y)
  ELSE StrLess(Tail(x), Tail(y))

\* list.index(x): 0-based position of the first occurrence
ListIndex(list, x) ==
  (CHOOSE i \in DOMAIN list : list[i] = x /\ \A j \in 1..(i - 1) : list[j] # x) - 1

SeqsUpTo(S, n) == UNION {[1..m -> S] : m \in 0..n}

NoDuplicates(list) == \A i, j \in DOMAIN list : i # j => list[i] # list[j]

(***************************************************************************)
(* Outcomes.  kind is "none" while the program runs, then "error" (code,   *)
(* arg), "valid" (warnings, complete), "regex" (text), or "abort" (an      *)
(* uncaught exception, named in code).                                     *)
(***************************************************************************)
NoOut ==
  [kind |-> "none", code |-> "", arg |-> None, warnings |-> <<>>,
   complete |-> FALSE, text |-> <<>>]

ErrorOut(c, a) == [NoOut EXCEPT !.kind = "error", !.code = c, !.arg = a]

AbortOut(c) == [NoOut EXCEPT !.kind = "abort", !.code = c]

(***************************************************************************)
(* find_error, lines 123-138: the checks before is_disjoint.               *)
(***************************************************************************)
NoError == [code |-> "", arg |-> None]

\* a faulty variant: the endpoints are checked before the symbol
TransitionErrorEndpointsFirst(f, t) ==
  IF ~InList(t[1], f.states) THEN [code |-> "E1", arg |-> t[1]]
  ELSE IF ~InList(t[3], f.states) THEN [code |-> "E1", arg |-> t[3]]
  ELSE IF ~InList(t[2], f.alpha) THEN [code |-> "E3", arg |-> t[2]]
  ELSE NoError

\* a faulty variant: the target state of a transition is not checked
TransitionErrorTargetUnchecked(f, t) ==
  IF ~InList(t[2], f.alpha) THEN [code |-> "E3", arg |-> t[2]]
  ELSE IF ~InList(t[1], f.states) THEN [code |-> "E1", arg |-> t[1]]
  ELSE NoError

\* the body of the loop over the transitions, for one transition
TransitionError(f, t) ==
  IF ~InList(t[2], f.alpha) THEN [code |-> "E3", arg |-> t[2]]
  ELSE IF ~InList(t[1], f.states) THEN [code |-> "E1", arg |-> t[1]]
  ELSE IF ~InList(t[3], f.states) THEN [code |-> "E1", arg |-> t[3]]
  ELSE NoError

\* the loop: the first transition, in list order, with an error decides
RECURSIVE FirstTransitionError(_, _)
FirstTransitionError(f, ts) ==
  IF ts = <<>> THEN NoError
  ELSE IF TransitionError(f, Head(ts)) # NoError THEN TransitionError(f, Head(ts))
  ELSE FirstTransitionError(f, Tail(ts))

RECURSIVE FirstFinalError(_, _)
FirstFinalError(f, fs) ==
  IF fs = <<>> THEN NoError
  ELSE IF ~InList(Head(fs), f.states) THEN [code |-> "E1", arg |-> Head(fs)]
  ELSE FirstFinalError(f, Tail(fs))

StructuralError(f) ==
  IF f.init = None THEN [code |-> "E4", arg |-> None]
  ELSE IF ~InList(f.init, f.states) THEN [code |-> "E1", arg |-> f.init]
  ELSE IF FirstTransitionError(f, f.trans) # NoError
    THEN FirstTransitionError(f, f.trans)
  ELSE FirstFinalError(f, f.fin)

(***************************************************************************)
(* The adjacency dict of is_disjoint (both directions) and of              *)
(* are_all_states_reachable (one direction).  A dict is a function on its  *)
(* keys; graph[k] with k not a key raises KeyError.                        *)
(***************************************************************************)
RECURSIVE AddEdges(_, _, _)
AddEdges(g, ts, undirected) ==
  IF ts = <<>> THEN g
  ELSE LET t == Head(ts)
           g1 == [g EXCEPT ![t[1]] = Append(@, t[3])]
           g2 == IF undirected THEN [g1 EXCEPT ![t[3]] = Append(@, t[1])] ELSE g1
       IN AddEdges(g2, Tail(ts), undirected)

EmptyGraph(f) == [s \in Range(f.states) |-> <<>>]

\* graph[state_from] or graph[state_to] is looked up with a missing key
BuildRaisesKeyError(f, undirected) ==
  \E i \in DOMAIN f.trans :
    \/ f.trans[i][1] \notin Range(f.states)
    \/ undirected /\ f.trans[i][3] \notin Range(f.states)

BuildGraph(f, undirected) == AddEdges(EmptyGraph(f), f.trans, undirected)

(***************************************************************************)
(* is_complete and is_deterministic.                                       *)
(***************************************************************************)
\* transitions_for_state: only the states that are the source of a transition are keys
TransitionsForState(f) ==
  [s \in {f.trans[i][1] : i \in DOMAIN f.trans} |->
     {f.trans[i][2] : i \in {j \in DOMAIN f.trans : f.trans[j][1] = s}}]

is_complete(f) ==
  \A s \in DOMAIN TransitionsForState(f) :
    ~(Cardinality(TransitionsForState(f)[s]) < Len(f.alpha))

\* False as soon as a (state_from, transition) key is met a second time
is_deterministic(f) ==
  \A i, j \in DOMAIN f.trans :
    i # j => <<f.trans[i][1], f.trans[i][2]>> # <<f.trans[j][1], f.trans[j][2]>>

(***************************************************************************)
(* get_regexp.                                                             *)
(***************************************************************************)
\* a faulty variant: the transitions are left in the order they were read in
UnsortedTransitions(ts) == ts

\* list.sort(key=lambda x: x[1]) keeps the order of equal keys: x goes
\* before the first element whose symbol is greater than its own
RECURSIVE InsertBySymbol(_, _)
InsertBySymbol(x, sorted) ==
  IF sorted = <<>> THEN <<x>>
  ELSE IF StrLess(x[2], Head(sorted)[2]) THEN <<x>> \o sorted
  ELSE <<Head(sorted)>> \o InsertBySymbol(x, Tail(sorted))

RECURSIVE SortBySymbol(_)
SortBySymbol(ts) ==
  IF ts = <<>> THEN <<>>
  ELSE InsertBySymbol(ts[Len(ts)], SortBySymbol(SubSeq(ts, 1, Len(ts) - 1)))

\* dict assignment d[k] = v
Put(d, k, v) == [x \in DOMAIN d \cup {k} |-> IF x = k THEN v ELSE d[x]]

EmptyDict == [x \in {} |-> 0]

\* get_states_dict: the dict holds index -> state (byIndex) and state ->
\* index (byName); "state in fsa[k_initial_state]" is a substring test
RECURSIVE StatesDictLoop(_, _, _, _)
StatesDictLoop(rest, init, i, d) ==
  IF rest = <<>> THEN d
  ELSE LET state == Head(rest) IN
    IF IsSubstring(state, init)
    THEN StatesDictLoop(Tail(rest), init, i,
           [byIndex |-> Put(d.byIndex, 0, state), byName |-> Put(d.byName, state, 0)])
    ELSE StatesDictLoop(Tail(rest), init, i + 1,
           [byIndex |-> Put(d.byIndex, i, state), byName |-> Put(d.byName, state, i)])

get_states_dict(f) ==
  StatesDictLoop(f.states, f.init, 1, [byIndex |-> EmptyDict, byName |-> EmptyDict])

\* graph[src].append((dest, transition)) over the sorted transitions
RECURSIVE IndexedEdges(_, _, _)
IndexedEdges(g, ts, names) ==
  IF ts = <<>> THEN g
  ELSE LET t == Head(ts)
           src == names[t[1]]
           dest == names[t[3]]
       IN IndexedEdges([g EXCEPT ![src] = Append(@, <<dest, t[2]>>)], Tail(ts), names)

IndexedGraph(f) ==
  IndexedEdges([i \in 0..(Len(f.states) - 1) |-> <<>>], f.trans,
               get_states_dict(f).byName)

\* R(i, j, -1): the symbols of the edges from i to j in the order of
\* graph[i], then eps when i = j, and {} when nothing was written
RECURSIVE DirectEdges(_, _, _)
DirectEdges(edges, j, m_regexp) ==
  IF edges = <<>> THEN m_regexp
  ELSE IF Head(edges)[1] # j THEN DirectEdges(Tail(edges), j, m_regexp)
  ELSE DirectEdges(Tail(edges), j,
         (IF m_regexp # <<>> THEN m_regexp \o BAR ELSE m_regexp) \o Head(edges)[2])

RBase(g, i, j) ==
  LET m1 == DirectEdges(g[i], j, <<>>)
      m2 == IF i = j THEN (IF m1 # <<>> THEN m1 \o BAR ELSE m1) \o EPS ELSE m1
  IN IF m2 = <<>> THEN EMPTYSET ELSE m2

RECURSIVE R(_, _, _, _)
R(g, i, j, k) ==
  IF k = -1 THEN RBase(g, i, j)
  ELSE LPAR \o R(g, i, k, k - 1) \o RPAR
       \o LPAR \o R(g, k, k, k - 1) \o RPAR \o STAR
       \o LPAR \o R(g, k, j, k - 1) \o RPAR
       \o BAR \o LPAR \o R(g, i, j, k - 1) \o RPAR

\* final_states_indexes: fsa[k_states].index(state) for each final state
FinalStatesIndexes(f) == [x \in DOMAIN f.fin |-> ListIndex(f.states, f.fin[x])]

\* list.sort() on integers
RECURSIVE InsertInt(_, _)
InsertInt(x, sorted) ==
  IF sorted = <<>> THEN <<x>>
  ELSE IF x < Head(sorted) THEN <<x>> \o sorted
  ELSE <<Head(sorted)>> \o InsertInt(x, Tail(sorted))

RECURSIVE SortInts(_)
SortInts(xs) ==
  IF xs = <<>> THEN <<>>
  ELSE InsertInt(xs[Len(xs)], SortInts(SubSeq(xs, 1, Len(xs) - 1)))

\* the final loop: R(0, i, n_states - 1) for each index, joined with |
RECURSIVE Assemble(_, _, _, _)
Assemble(g, n, indexes, regexp) ==
  IF indexes = <<>> THEN regexp
  ELSE Assemble(g, n, Tail(indexes),
         (IF regexp # <<>> THEN regexp \o BAR ELSE regexp)
           \o R(g, 0, Head(indexes), n - 1))

\* the exceptions get_regexp can raise on an automaton it was not meant for
GetRegexpRaises(f) ==
  \/ f.init = None
  \/ \E x \in DOMAIN f.trans :
       \/ f.trans[x][1] \notin DOMAIN get_states_dict(f).byName
       \/ f.trans[x][3] \notin DOMAIN get_states_dict(f).byName
       \/ get_states_dict(f).byName[f.trans[x][1]] \notin 0..(Len(f.states) - 1)
  \/ \E x \in DOMAIN f.fin : ~InList(f.fin[x], f.states)

\* the transitions after line 234
SortedFsa(f) == [f EXCEPT !.trans = SortBySymbol(f.trans)]

\* the returned string, computed on the automaton with its transitions sorted
RegexpOfSorted(f) ==
  LET regexp == Assemble(IndexedGraph(f), Len(f.states),
                         SortInts(FinalStatesIndexes(f)), <<>>)
  IN IF regexp = <<>> THEN EMPTYSET ELSE regexp

get_regexp(f) == RegexpOfSorted(SortedFsa(f))

(***************************************************************************)
(* The state machine.  fsa is the dict read_file returned, input a copy of *)
(* it as it was read; graph, q and visited_nodes are the locals of the     *)
(* breadth-first loop that is running; trace lists the functions main has  *)
(* called so far.                                                          *)
(***************************************************************************)
Triples == StateNames \X SymbolNames \X StateNames

\* What read_file can return: lists of names, the initial state or None,
\* and the transitions without repetition (line 76) in any order.  The
\* file format does not allow an empty state list; find_error is defined on
\* it all the same and the empty list is kept.
Automata ==
  [states : SeqsUpTo(StateNames, MaxStates),
   alpha : Alphabets,
   init : StateNames \cup {None},
   fin : SeqsUpTo(StateNames, MaxFinals),
   trans : {ts \in SeqsUpTo(Triples, MaxTrans) : NoDuplicates(ts)}]

Init ==
  /\ fsa \in Automata
  /\ input = fsa
  /\ pc = "main"
  /\ graph = <<>>
  /\ q = <<>>
  /\ visited_nodes = {}
  /\ out = NoOut
  /\ trace = <<>>

Calls(name) == Cardinality({i \in DOMAIN trace : trace[i] = name})

\* main calls find_error: lines 123-138, then is_disjoint up to its loop
FindError ==
  /\ pc = "main"
  /\ trace' = Append(trace, "find_error")
  /\ IF StructuralError(fsa) # NoError
     THEN /\ out' = ErrorOut(StructuralError(fsa).code, StructuralError(fsa).arg)
          /\ pc' = "done"
          /\ UNCHANGED <<graph, q, visited_nodes>>
     ELSE IF BuildRaisesKeyError(fsa, TRUE)
     THEN /\ out' = AbortOut("KeyError")
          /\ pc' = "done"
          /\ UNCHANGED <<graph, q, visited_nodes>>
     ELSE /\ graph' = BuildGraph(fsa, TRUE)
          /\ q' = <<fsa.init>>
          /\ visited_nodes' = {}
          /\ pc' = "is_disjoint"
          /\ UNCHANGED out
  /\ UNCHANGED <<fsa, input>>

\* one turn of "while len(q) != 0" in is_disjoint or are_all_states_reachable
BfsStep ==
  /\ pc \in {"is_disjoint", "are_all_states_reachable"}
  /\ q # <<>>
  /\ LET node == Head(q)
         NotVisited(next_node) == next_node \notin (visited_nodes \cup {node})
     IN /\ visited_nodes' = visited_nodes \cup {node}
        /\ IF node \notin DOMAIN graph
           THEN /\ out' = AbortOut("KeyError")
                /\ pc' = "done"
                /\ q' = Tail(q)
           ELSE /\ q' = Tail(q) \o SelectSeq(graph[node], NotVisited)
                /\ UNCHANGED <<out, pc>>
  /\ UNCHANGED <<fsa, input, graph, trace>>

\* the value is_disjoint returns
DisjointResult(visited, f) == Cardinality(visited) # Len(f.states)

\* is_disjoint returns and find_error with it
IsDisjointReturn ==
  /\ pc = "is_disjoint"
  /\ q = <<>>
  /\ IF DisjointResult(visited_nodes, fsa)
     THEN out' = ErrorOut("E2", None) /\ pc' = "done"
     ELSE out' = out /\ pc' = "validated"
  /\ UNCHANGED <<fsa, input, graph, q, visited_nodes, trace>>

W1 == "W1"
W2 == "W2"
W3 == "W3"

\* main of main.py, lines 246-251, up to the loop of are_all_states_reachable
ValidatorMain ==
  /\ pc = "validated"
  /\ trace' = trace \o <<"is_complete", "are_all_states_reachable">>
  /\ IF BuildRaisesKeyError(fsa, FALSE)
     THEN /\ out' = AbortOut("KeyError")
          /\ pc' = "done"
          /\ UNCHANGED <<graph, q, visited_nodes>>
     ELSE /\ out' = [out EXCEPT !.complete = is_complete(fsa),
                                !.warnings = IF Len(fsa.fin) = 0 THEN <<W1>> ELSE <<>>]
          /\ graph' = BuildGraph(fsa, FALSE)
          /\ q' = <<fsa.init>>
          /\ visited_nodes' = {}
          /\ pc' = "are_all_states_reachable"
  /\ UNCHANGED <<fsa, input>>

\* are_all_states_reachable returns; main of main.py, lines 251-261
AllReachableReturn ==
  /\ pc = "are_all_states_reachable"
  /\ q = <<>>
  /\ trace' = Append(trace, "is_deterministic")
  /\ out' = [out EXCEPT
       !.kind = "valid",
       !.warnings = @
         \o (IF Cardinality(visited_nodes) = Len(fsa.states) THEN <<>> ELSE <<W2>>)
         \o (IF is_deterministic(fsa) THEN <<>> ELSE <<W3>>)]
  /\ pc' = "done"
  /\ UNCHANGED <<fsa, input, graph, q, visited_nodes>>

\* a faulty variant: get_regexp is called whatever is_deterministic says
NoDeterminismGate(f) == TRUE

\* main of fsa_to_regex.py, line 325: whether main goes on to get_regexp
DeterminismGate(f) == is_deterministic(f)

\* main of fsa_to_regex.py, lines 325-328
RegexMain ==
  /\ pc = "validated"
  /\ trace' = Append(trace, "is_deterministic")
  /\ IF DeterminismGate(fsa)
     THEN out' = out /\ pc' = "get_regexp"
     ELSE out' = ErrorOut("E6", None) /\ pc' = "done"
  /\ UNCHANGED <<fsa, input, graph, q, visited_nodes>>

\* a call of get_regexp: the one of main, lines 330-331, or a further call
\* on the automaton the call before it left behind
GetRegexp ==
  /\ \/ pc = "get_regexp"
     \/ pc = "done" /\ out.kind = "regex" /\ Calls("get_regexp") < MaxCalls
  /\ trace' = Append(trace, "get_regexp")
  /\ pc' = "done"
  /\ IF GetRegexpRaises(fsa)
     THEN out' = AbortOut("get_regexp") /\ fsa' = fsa
     ELSE /\ fsa' = SortedFsa(fsa)
          /\ out' = [NoOut EXCEPT !.kind = "regex", !.text = get_regexp(fsa)]
  /\ UNCHANGED <<input, graph, q, visited_nodes>>

Next ==
  \/ FindError
  \/ BfsStep
  \/ IsDisjointReturn
  \/ ValidatorMain
  \/ AllReachableReturn
  \/ RegexMain
  \/ GetRegexp

Spec == Init /\ [][Next]_vars

(***************************************************************************)
(* What an expression denotes (the output alphabet: | alternation,         *)
(* juxtaposition, * star, ( ) grouping, eps, {} and the symbols as atoms), *)
(* read from its bytes with * binding tightest and | loosest.  A language  *)
(* is the set of its words of at most MaxWord symbols.                     *)
(***************************************************************************)
AllWords == SeqsUpTo(SymbolNames, MaxWord)

Concat(L1, L2) == {w \in {u \o v : u \in L1, v \in L2} : Len(w) <= MaxWord}

RECURSIVE StarUpTo(_, _)
StarUpTo(L, n) ==
  IF n = 0 THEN {<<>>} ELSE {<<>>} \cup Concat(L, StarUpTo(L, n - 1))

Star(L) == StarUpTo(L, MaxWord)

IsIdentChar(c) == c \in (48..57) \cup (65..90) \cup (97..122) \cup {95}

RECURSIVE IdentEnd(_, _)
IdentEnd(s, p) ==
  IF p <= Len(s) /\ IsIdentChar(s[p]) THEN IdentEnd(s, p + 1) ELSE p

RECURSIVE ParseAlt(_, _)
RECURSIVE ParseCat(_, _)
RECURSIVE ParseStars(_, _)
RECURSIVE ParseAtom(_, _)

ParseAlt(s, p) ==
  LET c == ParseCat(s, p) IN
  IF c.pos <= Len(s) /\ s[c.pos] = 124
  THEN LET r == ParseAlt(s, c.pos + 1) IN [lang |-> c.lang \cup r.lang, pos |-> r.pos]
  ELSE c

ParseCat(s, p) ==
  LET a == ParseStars(s, ParseAtom(s, p)) IN
  IF a.pos <= Len(s) /\ s[a.pos] \notin {124, 41}
  THEN LET r == ParseCat(s, a.pos) IN [lang |-> Concat(a.lang, r.lang), pos |-> r.pos]
  ELSE a

ParseStars(s, a) ==
  IF a.pos <= Len(s) /\ s[a.pos] = 42
  THEN ParseStars(s, [lang |-> Star(a.lang), pos |-> a.pos + 1])
  ELSE a

ParseAtom(s, p) ==
  IF s[p] = 40
  THEN LET r == ParseAlt(s, p + 1) IN [lang |-> r.lang, pos |-> r.pos + 1]
  ELSE IF s[p] = 123 THEN [lang |-> {}, pos |-> p + 2]
  ELSE LET e == IdentEnd(s, p)
           name == SubSeq(s, p, e - 1)
       IN [lang |-> IF name = EPS THEN {<<>>} ELSE {<<name>>}, pos |-> e]

Lang(s) == ParseAlt(s, 1).lang

\* the states the automaton can be in after reading w from a state of from
RECURSIVE Reach(_, _, _)
Reach(f, from, w) ==
  IF w = <<>> THEN from
  ELSE Reach(f, {f.trans[x][3] : x \in {y \in DOMAIN f.trans :
                   f.trans[y][1] \in from /\ f.trans[y][2] = Head(w)}}, Tail(w))

\* the words that lead from the initial state to a final state
AcceptedLang(f) == {w \in AllWords : Reach(f, {f.init}, w) \cap Range(f.fin) # {}}

\* the non-empty words of at most n symbols that lead from state a to state
\* b through states whose index is at most k
RECURSIVE StepWords(_, _, _, _, _, _)
StepWords(f, names, a, b, k, n) ==
  IF n = 0 THEN {}
  ELSE {<<f.trans[x][2]>> : x \in {y \in DOMAIN f.trans :
                                     f.trans[y][1] = a /\ f.trans[y][3] = b}}
       \cup UNION {Concat({<<f.trans[x][2]>>},
                          StepWords(f, names, f.trans[x][3], b, k, n - 1)) :
                   x \in {y \in DOMAIN f.trans :
                            f.trans[y][1] = a /\ names[f.trans[y][3]] <= k}}

PathWords(f, names, a, b, k) ==
  (IF a = b THEN {<<>>} ELSE {}) \cup StepWords(f, names, a, b, k, MaxWord)

(***************************************************************************)
(* The claims.                                                             *)
(***************************************************************************)
\* which of the two programs the run belongs to, once its main has branched
IsValidatorRun == InList("is_complete", trace)
IsRegexRun == Len(trace) >= 2 /\ ~IsValidatorRun

SymbolViolated(f, t) == t[2] \notin Range(f.alpha)
EndpointViolated(f, t) == t[1] \notin Range(f.states) \/ t[3] \notin Range(f.states)
RuleViolated(f, t) == SymbolViolated(f, t) \/ EndpointViolated(f, t)

InitialOk(f) == f.init # None /\ f.init \in Range(f.states)

\* the first transition, in iteration order, that violates a rule
FirstViolation(f) ==
  CHOOSE x \in DOMAIN f.trans :
    /\ RuleViolated(f, f.trans[x])
    /\ \A y \in 1..(x - 1) : ~RuleViolated(f, f.trans[y])

\* C1, as stated: with the initial state defined and in states, a
\* transition whose symbol is outside the alphabet makes the outcome E3,
\* whatever the other transitions are and in whatever order they come.
C1_SymbolErrorWinsOverAllEndpoints ==
  (/\ pc = "done"
   /\ InitialOk(input)
   /\ \E x \in DOMAIN input.trans : SymbolViolated(input, input.trans[x]))
  => (out.kind = "error" /\ out.code = "E3")

\* C1, amended: with the initial state defined and in states, the first
\* transition in iteration order that violates a rule decides: the outcome
\* is E3 when its symbol is outside the alphabet (also when an endpoint of
\* it is outside states as well), and E1 when only an endpoint is.
C1_FirstViolatingTransitionDecides ==
  (/\ pc = "done"
   /\ InitialOk(input)
   /\ \E x \in DOMAIN input.trans : RuleViolated(input, input.trans[x]))
  => /\ out.kind = "error"
     /\ out.code = IF SymbolViolated(input, input.trans[FirstViolation(input)])
                   THEN "E3" ELSE "E1"
     /\ out.arg \in {input.trans[FirstViolation(input)][y] : y \in 1..3}

\* C1, its case: E3 is reported for a transition that violates the symbol
\* rule and an endpoint rule at once, with a second transition behind it
C1_Witness ==
  /\ pc = "done"
  /\ out.kind = "error" /\ out.code = "E3"
  /\ InitialOk(input)
  /\ Len(input.trans) = 2
  /\ SymbolViolated(input, input.trans[1])
  /\ EndpointViolated(input, input.trans[1])
  /\ EndpointViolated(input, input.trans[2])

\* C2: the expression get_regexp returns for a validated, deterministic
\* automaton denotes the language the automaton accepts.
C2_RegexDenotesAcceptedLanguage ==
  (pc = "done" /\ out.kind = "regex") => Lang(out.text) = AcceptedLang(input)

\* the indexes of the final states as get_states_dict assigned them
AssignedFinalIndexes(f) ==
  [x \in DOMAIN f.fin |-> get_states_dict(f).byName[f.fin[x]]]

\* C3: the returned expression is the |-join of R(0, idx(f), n-1) over the
\* final states f in ascending order of the index idx(f) that the index
\* assignment gave them, {} when there is none.
C3_FinalTermsUseAssignedIndex ==
  (pc = "done" /\ out.kind = "regex") =>
    out.text =
      (LET regexp == Assemble(IndexedGraph(fsa), Len(fsa.states),
                              SortInts(AssignedFinalIndexes(fsa)), <<>>)
       IN IF regexp = <<>> THEN EMPTYSET ELSE regexp)

\* C4: is_complete is true exactly when every state in states has an
\* outgoing transition for every symbol of the alphabet.
C4_CompleteIffEveryStateCoversAlphabet ==
  (pc = "done" /\ out.kind = "valid") =>
    (out.complete <=>
       \A st \in Range(input.states) : \A a \in Range(input.alpha) :
         \E x \in DOMAIN input.trans :
           input.trans[x][1] = st /\ input.trans[x][2] = a)

\* the error codes validation can report
ValidationCodes == {"E1", "E2", "E3", "E4"}

\* the keys of the adjacency dict the traversal has not visited yet
UnvisitedKeys == Cardinality(DOMAIN graph \ visited_nodes)

\* the entries of the queue that are visited already
VisitedInQueue == Cardinality({x \in DOMAIN q : q[x] \in visited_nodes})

\* how far the run is from its end, the calls of get_regexp still allowed included
Stage ==
  CASE pc = "main" -> MaxCalls + 4
    [] pc = "is_disjoint" -> MaxCalls + 3
    [] pc = "validated" -> MaxCalls + 2
    [] pc \in {"are_all_states_reachable", "get_regexp"} -> MaxCalls + 1
    [] pc = "done" -> MaxCalls - Calls("get_regexp")

\* the guards of the actions: the loop turns while the queue is not empty
\* and returns when it is, and every other step waits for its place alone
SomeGuardHolds ==
  \/ pc = "main"
  \/ pc \in {"is_disjoint", "are_all_states_reachable"} /\ q # <<>>
  \/ pc = "is_disjoint" /\ q = <<>>
  \/ pc = "are_all_states_reachable" /\ q = <<>>
  \/ pc = "validated"
  \/ pc = "get_regexp"

\* C5: the run never aborts; the traversal is never started with an
\* undefined initial state and never meets a state that is not a key of
\* the adjacency dict; a run that has not ended can take a step, and every
\* step lowers (Stage, UnvisitedKeys, VisitedInQueue) in the lexicographic
\* order, so that the queue becomes empty and the run ends; and it ends
\* with one classified outcome (an error E1-E4, E6 in the regex tool only,
\* the validator's verdict or the regex tool's expression).
C5_AlwaysTerminatesClassified ==
  /\ [](/\ out.kind # "abort"
        /\ pc \in {"is_disjoint", "are_all_states_reachable"} =>
             (fsa.init # None /\ Range(q) \subseteq DOMAIN graph)
        /\ pc # "done" => SomeGuardHolds
        /\ pc = "done" =>
             \/ out.kind = "error" /\ out.code \in ValidationCodes
             \/ out.kind = "error" /\ out.code = "E6" /\ IsRegexRun
             \/ out.kind = "valid" /\ IsValidatorRun /\ q = <<>>
             \/ out.kind = "regex" /\ IsRegexRun)
  /\ [][\/ Stage' < Stage
        \/ Stage' = Stage /\ UnvisitedKeys' < UnvisitedKeys
        \/ /\ Stage' = Stage
           /\ UnvisitedKeys' = UnvisitedKeys
           /\ VisitedInQueue' < VisitedInQueue]_vars

\* C5, its case: the validator has ended with a verdict on an automaton
\* with a cycle between two states, the traversal having emptied its queue
C5_Witness ==
  /\ pc = "done" /\ out.kind = "valid" /\ q = <<>>
  /\ \E x, y \in DOMAIN input.trans :
       /\ input.trans[x][1] # input.trans[x][3]
       /\ input.trans[y][1] = input.trans[x][3]
       /\ input.trans[y][3] = input.trans[x][1]

\* the states joined to the initial state by transitions read both ways
RECURSIVE Component(_, _)
Component(f, c) ==
  LET next == c \cup {f.trans[x][3] : x \in {y \in DOMAIN f.trans : f.trans[y][1] \in c}}
                \cup {f.trans[x][1] : x \in {y \in DOMAIN f.trans : f.trans[y][3] \in c}}
  IN IF next = c THEN c ELSE Component(f, next)

\* C6: when none of E4, E1, E3 applies, the traversal of is_disjoint
\* returns the component of the initial state, and E2 is reported exactly
\* when some state of states is outside that component.
C6_DisjointIffSomeStateUnconnected ==
  (/\ StructuralError(input) = NoError
   /\ pc \in {"validated", "done"})
  => /\ Calls("are_all_states_reachable") = 0 =>
          visited_nodes = Component(input, {input.init})
     /\ (out.kind = "error" /\ out.code = "E2")
          <=> ~(Range(input.states) \subseteq Component(input, {input.init}))

Nondeterministic(f) ==
  \E x, y \in DOMAIN f.trans :
    /\ f.trans[x][1] = f.trans[y][1]
    /\ f.trans[x][2] = f.trans[y][2]
    /\ f.trans[x][3] # f.trans[y][3]

\* C7: get_regexp is called only after find_error returned no error and
\* then is_deterministic returned true; a run that reports an error has
\* called no get_regexp and emitted no expression; a validated automaton
\* with two transitions sharing (from, symbol) ends in E6 in the regex
\* tool and in a verdict with W3 in the validator.
C7_SynthesisOnlyAfterValidationAndDeterminism ==
  /\ Calls("get_regexp") >= 1 =>
       /\ SubSeq(trace, 1, 3) = <<"find_error", "is_deterministic", "get_regexp">>
       /\ StructuralError(input) = NoError
       /\ ~Nondeterministic(input)
  /\ out.kind = "error" => (Calls("get_regexp") = 0 /\ out.text = <<>>)
  /\ (pc = "done" /\ Len(trace) >= 2 /\ Nondeterministic(input)) =>
       /\ IsRegexRun => (out.kind = "error" /\ out.code = "E6")
       /\ IsValidatorRun => (out.kind = "valid" /\ InList(W3, out.warnings))

\* C7, its case: the regex tool has refused a validated automaton with E6
C7_Witness ==
  /\ pc = "done" /\ IsRegexRun
  /\ out.kind = "error" /\ out.code = "E6"
  /\ StructuralError(input) = NoError
  /\ Nondeterministic(input)

\* the orderings of a list
Orderings(ts) ==
  {[x \in DOMAIN ts |-> ts[p[x]]] :
     p \in {r \in [DOMAIN ts -> DOMAIN ts] : \A x, y \in DOMAIN ts : x # y => r[x] # r[y]}}

\* C8: the expression is the one get_regexp returns for every ordering of
\* the transitions that were read, on the first call and on a call that
\* follows it; and the automaton differs from the one read only in the
\* order of its transitions.
C8_OutputIndependentOfOrderAndRerun ==
  out.kind = "regex" =>
    /\ \A ts \in Orderings(input.trans) :
         get_regexp([input EXCEPT !.trans = ts]) = out.text
    /\ fsa.trans \in Orderings(input.trans)
    /\ [fsa EXCEPT !.trans = input.trans] = input

\* C8, its case: get_regexp has run twice on an automaton whose two
\* parallel transitions were read with the greater symbol first
C8_Witness ==
  /\ out.kind = "regex"
  /\ Calls("get_regexp") = 2
  /\ fsa.trans # input.trans
  /\ \E x, y \in DOMAIN input.trans :
       /\ x < y
       /\ input.trans[x][1] = input.trans[y][1]
       /\ input.trans[x][3] = input.trans[y][3]
       /\ StrLess(input.trans[y][2], input.trans[x][2])

\* the place of a state among the states that are not the initial state
RankAmongOthers(f, x) ==
  Cardinality({y \in 1..x : f.states[y] # f.init})

\* C9: for a list of distinct state names that holds the initial state,
\* the index assignment is a bijection between the states and 0..n-1, the
\* initial state alone has index 0, the others are numbered 1..n-1 in list
\* order, and graph[i] holds the outgoing transitions of the state with
\* index i and of no other.
C9_IndexAssignmentIsBijection ==
  (/\ pc = "get_regexp"
   /\ NoDuplicates(fsa.states)
   /\ InList(fsa.init, fsa.states))
  => LET d == get_states_dict(fsa)
         n == Len(fsa.states)
         g == IndexedGraph(SortedFsa(fsa))
     IN /\ DOMAIN d.byName = Range(fsa.states)
        /\ DOMAIN d.byIndex = 0..(n - 1)
        /\ \A x \in DOMAIN fsa.states :
             /\ d.byName[fsa.states[x]] =
                  IF fsa.states[x] = fsa.init THEN 0 ELSE RankAmongOthers(fsa, x)
             /\ d.byIndex[d.byName[fsa.states[x]]] = fsa.states[x]
        /\ \A i \in 0..(n - 1) :
             Range(g[i]) = {<<d.byName[fsa.trans[x][3]], fsa.trans[x][2]>> :
                              x \in {y \in DOMAIN fsa.trans :
                                       fsa.trans[y][1] = d.byIndex[i]}}

\* C10: for the indexes i, j of two states and k in -1..n-1, R(i, j, k)
\* denotes the words that lead from the state with index i to the state
\* with index j through states of index at most k.
C10_RDenotesRestrictedPaths ==
  pc = "get_regexp" =>
    LET d == get_states_dict(fsa)
        n == Len(fsa.states)
        g == IndexedGraph(SortedFsa(fsa))
    IN \A i, j \in DOMAIN d.byIndex : \A k \in (-1)..(n - 1) :
         Lang(R(g, i, j, k)) = PathWords(fsa, d.byName, d.byIndex[i], d.byIndex[j], k)

====
